---- MODULE Spec2Model ----
(***************************************************************************)
(* A model of ParseRateLimiter (src/index.js): a queue of objects that a   *)
(* timer callback (rateLimiter) drains in slices of at most maxRate items, *)
(* each slice being saved in sub-batches of at most batchSize objects.     *)
(*                                                                         *)
(* Parse.Promise is modelled with the semantics of the legacy Parse SDK    *)
(* the code is written against (require('parse').Parse, .fail, deferred    *)
(* promises resolved by hand): callbacks run synchronously when a promise  *)
(* settles; resolve/reject on a settled promise throws and changes         *)
(* nothing; a .fail handler that returns a non-promise leaves the derived  *)
(* promise rejected; Parse.Promise.when settles once every input has       *)
(* settled, and rejects with the array of errors.                          *)
(*                                                                         *)
(* Objects are named by integers: the k-th valid Parse.Object handed to    *)
(* save/saveAll is k; null is 0 and a string is -1. The error of a failing *)
(* request is named by the request: ErrorsOf(i, subs) is the array of      *)
(* errors with which the join of slice i rejects.                          *)
(***************************************************************************)
EXTENDS Integers, Sequences, FiniteSets, TLC

\* ---------------------------------------------------------------- bounds
MaxItems == 12        \* elements handed to save/saveAll over a run
MaxCalls == 4         \* finalize calls and appending save/saveAll calls over a run
MaxSlices == 3        \* slices the enqueued work may need
MaxRates == {1, 2, 11}
ArgSizes == {0, 1, 2, 5, 11}   \* lengths of the arrays handed to saveAll

\* ------------------------------------------------------ program constants
batchSize == 10
PacingInterval == 1000

Undefined == <<>>
Null == 0
Str == -1

VARIABLES
    maxRate,          \* self._maxRate
    killSwitch,       \* self._killSwitch
    saveQueue,        \* self._saveQueue
    error,            \* self._error (Undefined while unset)
    finalizedPromise, \* index into outcomes of the current deferred, 0 if undefined
    toSave,           \* the last slice taken by rateLimiter
    timer,            \* the timer variable: a handle, or 0 for null/undefined
    savePromise,      \* index into slices of the latest dispatch, 0 if undefined
    scheduled,        \* the event loop's pending timeouts: [id, wait]
    handles,          \* number of setTimeout calls so far
    slices,           \* every dispatch: its sub-batches, their requests, savePromise
    outcomes,         \* what each finalize call returned, and its state
    enqueued,         \* history: the arrays appended to the queue, in order
    ticks,            \* history: number of times rateLimiter ran
    sinceDispatch,    \* history: ms since the last dispatching tick (saturating)
    startCalls        \* history: number of _startTimer calls

vars == <<maxRate, killSwitch, saveQueue, error, finalizedPromise, toSave, timer,
          savePromise, scheduled, handles, slices, outcomes, enqueued, ticks,
          sinceDispatch, startCalls>>

Min(a, b) == IF a < b THEN a ELSE b
Max(a, b) == IF a > b THEN a ELSE b

\* _.first(array, n) and _.rest(array, n)
First(s, n) == SubSeq(s, 1, Min(n, Len(s)))
Rest(s, n) == SubSeq(s, Min(n, Len(s)) + 1, Len(s))

RECURSIVE Flatten(_)
Flatten(ss) == IF ss = <<>> THEN <<>> ELSE Head(ss) \o Flatten(Tail(ss))

\* object instanceof Parse.Object
IsParseObject(x) == x > 0
\* JavaScript truthiness of an element
Truthy(x) == x # Null

\* The mutable state as one record, so that a handler's nested calls compose.
State ==
    [killSwitch |-> killSwitch, saveQueue |-> saveQueue, error |-> error,
     finalizedPromise |-> finalizedPromise, toSave |-> toSave, timer |-> timer,
     savePromise |-> savePromise, scheduled |-> scheduled, handles |-> handles,
     slices |-> slices, outcomes |-> outcomes, enqueued |-> enqueued,
     ticks |-> ticks, sinceDispatch |-> sinceDispatch, startCalls |-> startCalls]

Becomes(s) ==
    /\ killSwitch' = s.killSwitch
    /\ saveQueue' = s.saveQueue
    /\ error' = s.error
    /\ finalizedPromise' = s.finalizedPromise
    /\ toSave' = s.toSave
    /\ timer' = s.timer
    /\ savePromise' = s.savePromise
    /\ scheduled' = s.scheduled
    /\ handles' = s.handles
    /\ slices' = s.slices
    /\ outcomes' = s.outcomes
    /\ enqueued' = s.enqueued
    /\ ticks' = s.ticks
    /\ sinceDispatch' = s.sinceDispatch
    /\ startCalls' = s.startCalls
    /\ UNCHANGED maxRate

Init ==
    /\ maxRate \in MaxRates
    /\ killSwitch = FALSE
    /\ saveQueue = <<>>
    /\ error = Undefined
    /\ finalizedPromise = 0
    /\ toSave = <<>>
    /\ timer = 0
    /\ savePromise = 0
    /\ scheduled = {}
    /\ handles = 0
    /\ slices = <<>>
    /\ outcomes = <<>>
    /\ enqueued = <<>>
    /\ ticks = 0
    /\ sinceDispatch = PacingInterval
    /\ startCalls = 0

\* ------------------------------------------------------------ save, saveAll
\* The values a caller passes: "obj" is a new Parse.Object, "str" a string,
\* "null" the null value.
Kinds == {"obj", "str", "null"}

ValidCount(es) == Cardinality({i \in 1..Len(es) : IsParseObject(es[i])})

\* The elements a call passes, its Parse.Objects numbered after those passed so far.
RECURSIVE Elements(_, _)
Elements(kinds, next) ==
    IF kinds = <<>> THEN <<>>
    ELSE IF Head(kinds) = "obj" THEN <<next>> \o Elements(Tail(kinds), next + 1)
    ELSE IF Head(kinds) = "str" THEN <<Str>> \o Elements(Tail(kinds), next)
    ELSE <<Null>> \o Elements(Tail(kinds), next)

\* The bound on the caller: at most MaxCalls calls and MaxItems elements over
\* a run, and no more work queued than MaxSlices ticks drain.
SlicesNeeded(n, r) == (n + r - 1) \div r
Affordable(n) ==
    /\ Len(enqueued) + Len(outcomes) < MaxCalls
    /\ Len(Flatten(enqueued)) + n <= MaxItems
    /\ Len(slices) + SlicesNeeded(Len(saveQueue) + n, maxRate) <= MaxSlices

\* self.save: throws unless object is a Parse.Object, else pushes it.
saveThrows(object) == ~IsParseObject(object)

save(kind) ==
    LET object == Head(Elements(<<kind>>, ValidCount(Flatten(enqueued)) + 1)) IN
    IF saveThrows(object)
    THEN UNCHANGED vars
    ELSE /\ Affordable(1)
         /\ saveQueue' = Append(saveQueue, object)
         /\ enqueued' = Append(enqueued, <<object>>)
         /\ UNCHANGED <<maxRate, killSwitch, error, finalizedPromise, toSave, timer,
                        savePromise, scheduled, handles, slices, outcomes, ticks,
                        sinceDispatch, startCalls>>

\* The predicate handed to _.find
NotParseObject(x) == ~IsParseObject(x)

\* _.find(objects, NotParseObject): the first element satisfying the predicate,
\* undefined if none. Undefined is modelled by Null here: both are falsy, and
\* only truthiness is read.
Find(objects) ==
    LET hits == {i \in 1..Len(objects) : NotParseObject(objects[i])} IN
    IF hits = {} THEN Null
    ELSE objects[CHOOSE i \in hits : \A j \in hits : i <= j]

\* self.saveAll throws when inputError was set: objects is no array, or _.find
\* returned a truthy element that is no Parse.Object.
saveAllThrows(isArray, objects) ==
    \/ ~isArray
    \/ Truthy(Find(objects))

saveAll(isArray, kinds) ==
    LET objects == Elements(kinds, ValidCount(Flatten(enqueued)) + 1) IN
    IF saveAllThrows(isArray, objects)
    THEN UNCHANGED vars
    ELSE /\ Affordable(Len(objects))
         /\ saveQueue' = saveQueue \o objects
         /\ enqueued' = IF objects = <<>> THEN enqueued ELSE Append(enqueued, objects)
         /\ UNCHANGED <<maxRate, killSwitch, error, finalizedPromise, toSave, timer,
                        savePromise, scheduled, handles, slices, outcomes, ticks,
                        sinceDispatch, startCalls>>

\* The arguments the model passes to saveAll: arrays of new Parse.Objects,
\* arrays holding a string, and a non-array.
InvalidArrays ==
    {<<"str">>, <<"obj", "str", "obj">>}
ObjectArrays == {[i \in 1..n |-> "obj"] : n \in ArgSizes}

Save == \E kind \in Kinds : save(kind)

SaveAll ==
    \/ \E kinds \in ObjectArrays \cup InvalidArrays : saveAll(TRUE, kinds)
    \/ saveAll(FALSE, <<"obj">>)

\* Arrays holding a falsy element that is no Parse.Object. "null" stands for
\* every such value (null, undefined, 0, ""): the code reads only whether the
\* element is a Parse.Object and whether it is truthy.
FalsyArrays ==
    {<<"null">>, <<"obj", "null">>, <<"null", "obj">>}

SaveAllFalsy == \E kinds \in FalsyArrays : saveAll(TRUE, kinds)

\* The enqueue operations alone, over every kind of argument.
NextInput == Save \/ SaveAll \/ SaveAllFalsy
SpecInput == Init /\ [][NextInput]_vars

\* ------------------------------------------------------------------ timers
\* setTimeout(rateLimiter, delay): a new handle, pending for delay ms.
setTimeout(s, delay) ==
    [s EXCEPT !.handles = @ + 1,
              !.scheduled = @ \cup {[id |-> s.handles + 1, wait |-> delay]}]

\* clearTimeout(handle): a no-op for null and for a handle no longer pending.
clearTimeout(s, handle) ==
    [s EXCEPT !.scheduled = {t \in @ : t.id # handle}]

\* A start that forgets the "timer ||" guard.
startTimerAlways(s) ==
    [setTimeout([s EXCEPT !.startCalls = @ + 1], 0) EXCEPT !.timer = s.handles + 1]

\* self._startTimer: timer = timer || setTimeout(rateLimiter, 0)
startTimer(s) ==
    LET s1 == [s EXCEPT !.startCalls = @ + 1] IN
    IF s1.timer # 0 THEN s1
    ELSE [setTimeout(s1, 0) EXCEPT !.timer = s1.handles + 1]

\* ---------------------------------------------------------------- promises
\* An outcome returned by finalize. kind: "error" (Parse.Promise.error),
\* "deferred" (a finalizedPromise), "chained" (savePromise.then), "threw"
\* (finalize threw). History: calls counts the resolve/reject invocations on
\* it, upto the number of elements enqueued before the finalize call.
Outcome(kind, state, value, slice, upto) ==
    [kind |-> kind, state |-> state, value |-> value, slice |-> slice,
     calls |-> 0, upto |-> upto]

\* promise.resolve() / promise.reject(err) on outcome p: a settled promise
\* throws and keeps its state.
Settled(s, p) == s.outcomes[p].state # "pending"

resolve(s, p) ==
    IF Settled(s, p)
    THEN [s EXCEPT !.outcomes[p].calls = @ + 1]
    ELSE [s EXCEPT !.outcomes[p].calls = @ + 1, !.outcomes[p].state = "resolved"]

reject(s, p, err) ==
    IF Settled(s, p)
    THEN [s EXCEPT !.outcomes[p].calls = @ + 1]
    ELSE [s EXCEPT !.outcomes[p].calls = @ + 1, !.outcomes[p].state = "rejected",
                   !.outcomes[p].value = err]

\* The callbacks finalize chained on slice i's savePromise run: each pending
\* chained outcome takes the state given.
settleChained(s, i, state) ==
    [s EXCEPT !.outcomes =
        [p \in 1..Len(@) |->
            IF @[p].kind = "chained" /\ @[p].slice = i /\ @[p].state = "pending"
            THEN [@[p] EXCEPT !.state = state]
            ELSE @[p]]]

\* ---------------------------------------------------------------- errHandler
\* A handler without the early return on the kill switch.
errHandlerAgain(s, err) ==
    LET s1 == [clearTimeout(s, s.timer) EXCEPT !.killSwitch = TRUE,
                                               !.saveQueue = <<>>] IN
    IF s1.finalizedPromise # 0
    THEN reject(s1, s1.finalizedPromise, err)
    ELSE [s1 EXCEPT !.error = err]

\* A handler that stores the error whether or not a finalizedPromise exists.
errHandlerStores(s, err) ==
    IF s.killSwitch THEN s
    ELSE [clearTimeout(s, s.timer) EXCEPT !.killSwitch = TRUE,
                                          !.saveQueue = <<>>,
                                          !.error = err]

errHandler(s, err) ==
    IF s.killSwitch THEN s
    ELSE LET s1 == [clearTimeout(s, s.timer) EXCEPT !.killSwitch = TRUE,
                                                    !.saveQueue = <<>>] IN
         IF s1.finalizedPromise # 0
         THEN reject(s1, s1.finalizedPromise, err)
         ELSE [s1 EXCEPT !.error = err]

\* Whether errHandler(err) throws in state s: its reject call finds the
\* promise settled.
errHandlerThrows(s) ==
    /\ ~s.killSwitch
    /\ s.finalizedPromise # 0
    /\ Settled(s, s.finalizedPromise)

\* ------------------------------------------------------------- saveInBatches
\* A loop that steps over one object more than it takes.
RECURSIVE saveInBatchesSkips(_)
saveInBatchesSkips(objects) ==
    IF Len(objects) = 0 THEN <<>>
    ELSE <<First(objects, batchSize)>>
         \o saveInBatchesSkips(Rest(objects, batchSize + 1))

\* The while loop: sub-batches of at most batchSize objects, in order; one
\* Parse.Object.saveAll request each.
RECURSIVE saveInBatches(_)
saveInBatches(objects) ==
    IF Len(objects) = 0 THEN <<>>
    ELSE <<First(objects, batchSize)>> \o saveInBatches(Rest(objects, batchSize))

\* --------------------------------------------------------------- rateLimiter
\* self.killswitch (line 91) is a property the code never assigns: undefined.
killswitch == FALSE

\* A slice one object longer than what is removed from the queue.
lopOffOneMore(queue) == First(queue, maxRate + 1)

\* toSave = _.first(self._saveQueue, self._maxRate)
lopOff(queue) == First(queue, maxRate)

\* self._saveQueue = _.rest(self._saveQueue, self._maxRate)
leftInQueue(queue) == Rest(queue, maxRate)

\* savePromise = saveInBatches(toSave).fail(errHandler): a new dispatch, its
\* requests pending. cont: whether the tick attached finalizedPromise.resolve().
dispatch(s, slice) ==
    LET batches == saveInBatches(slice) IN
    [s EXCEPT !.slices = Append(@, [items |-> slice,
                                    batches |-> batches,
                                    subs |-> [j \in 1..Len(batches) |-> "pending"],
                                    sp |-> "pending",
                                    cont |-> FALSE]),
              !.savePromise = Len(s.slices) + 1,
              !.sinceDispatch = 0]

\* A last batch that re-arms the timer as saveAnother does.
lastBatchRearms(s) ==
    LET s1 == [setTimeout(s, PacingInterval) EXCEPT !.timer = s.handles + 1] IN
    IF s1.finalizedPromise # 0
    THEN [s1 EXCEPT !.slices[s1.savePromise].cont = TRUE]
    ELSE s1

\* The queue is empty after the slice: timer = null, and with a finalizedPromise
\* its resolution is tacked onto savePromise.
lastBatch(s) ==
    LET s1 == [s EXCEPT !.timer = 0] IN
    IF s1.finalizedPromise # 0
    THEN [s1 EXCEPT !.slices[s1.savePromise].cont = TRUE]
    ELSE s1

\* A tick that does not re-arm the timer.
saveAnotherForgets(s) == s

\* timer = setTimeout(rateLimiter, 1000)
saveAnother(s) ==
    [setTimeout(s, PacingInterval) EXCEPT !.timer = s.handles + 1]

\* The timer callback, run when the pending timeout h fires.
rateLimiter(s, h) ==
    LET s0 == [s EXCEPT !.scheduled = {t \in @ : t.id # h}, !.ticks = @ + 1] IN
    IF killswitch THEN s0
    ELSE IF Len(s0.saveQueue) > 0
    THEN LET slice == lopOff(s0.saveQueue)
             s1 == dispatch([s0 EXCEPT !.toSave = slice,
                                       !.saveQueue = leftInQueue(s0.saveQueue)],
                            slice)
         IN  IF Len(s1.saveQueue) = 0 THEN lastBatch(s1) ELSE saveAnother(s1)
    ELSE IF s0.timer # 0 THEN [s0 EXCEPT !.timer = 0]
    ELSE s0

\* ------------------------------------------------------------------ finalize
finalize(s) ==
    LET p == Len(s.outcomes) + 1
        n == Len(Flatten(s.enqueued))
    IN
    IF s.error # Undefined
    THEN [s EXCEPT !.outcomes = Append(@, Outcome("error", "rejected", s.error, 0, n))]
    ELSE IF Len(s.saveQueue) > 0
    THEN [startTimer(s) EXCEPT
             !.outcomes = Append(@, Outcome("deferred", "pending", Undefined, 0, n)),
             !.finalizedPromise = p]
    ELSE IF s.savePromise = 0
    THEN \* savePromise is undefined: savePromise.then throws a TypeError
         [s EXCEPT !.outcomes = Append(@, Outcome("threw", "threw", Undefined, 0, n))]
    ELSE [s EXCEPT !.outcomes =
             Append(@, Outcome("chained", s.slices[s.savePromise].sp, Undefined,
                               s.savePromise, n))]

\* ------------------------------------------------- completion of a request
\* Slice i's savePromise resolves: its callbacks run in the order they were
\* attached, the tick's continuation (finalizedPromise.resolve()) first. When
\* that throws, the callbacks after it are not run.
savePromiseResolves(s, i) ==
    LET s1 == [s EXCEPT !.slices[i].sp = "resolved"] IN
    IF s1.slices[i].cont
    THEN IF Settled(s1, s1.finalizedPromise)
         THEN resolve(s1, s1.finalizedPromise)
         ELSE settleChained(resolve(s1, s1.finalizedPromise), i, "resolved")
    ELSE settleChained(s1, i, "resolved")

\* The join of slice i rejects with err: .fail(errHandler) runs errHandler and,
\* unless it throws, rejects savePromise, whose chained outcomes reject.
savePromiseFails(s, i, err) ==
    IF errHandlerThrows(s)
    THEN errHandler(s, err)
    ELSE settleChained([errHandler(s, err) EXCEPT !.slices[i].sp = "rejected"],
                       i, "rejected")

\* Parse.Promise.when: settles once every request has, and rejects with the
\* array of their errors: slice i's, a 1 at each request that failed.
Joined(subs) == \A j \in 1..Len(subs) : subs[j] # "pending"
HadError(subs) == \E j \in 1..Len(subs) : subs[j] = "failed"
ErrorsOf(i, subs) ==
    <<i>> \o [j \in 1..Len(subs) |-> IF subs[j] = "failed" THEN 1 ELSE 0]

\* Request j of slice i completes with r ("ok" or "failed").
complete(s, i, j, r) ==
    LET s1 == [s EXCEPT !.slices[i].subs[j] = r]
        subs == s1.slices[i].subs
    IN  IF ~Joined(subs) THEN s1
        ELSE IF HadError(subs) THEN savePromiseFails(s1, i, ErrorsOf(i, subs))
        ELSE savePromiseResolves(s1, i)

Pending(i, j) ==
    /\ i \in 1..Len(slices)
    /\ j \in 1..Len(slices[i].subs)
    /\ slices[i].subs[j] = "pending"

\* ------------------------------------------------------------------ actions
Finalize ==
    /\ Len(enqueued) + Len(outcomes) < MaxCalls
    /\ Becomes(finalize(State))

Tick ==
    \E t \in scheduled :
        /\ t.wait = 0
        /\ Becomes(rateLimiter(State, t.id))

SaveSucceeds ==
    \E i \in 1..Len(slices) : \E j \in 1..Len(slices[i].subs) :
        /\ Pending(i, j)
        /\ Becomes(complete(State, i, j, "ok"))

SaveFails ==
    \E i \in 1..Len(slices) : \E j \in 1..Len(slices[i].subs) :
        /\ Pending(i, j)
        /\ Becomes(complete(State, i, j, "failed"))

\* Time passes: pending timeouts come due, never early.
Elapse ==
    \E d \in {PacingInterval \div 2, PacingInterval} :
        /\ \/ sinceDispatch < PacingInterval
           \/ \E t \in scheduled : t.wait > 0
        /\ scheduled' = {[t EXCEPT !.wait = Max(0, @ - d)] : t \in scheduled}
        /\ sinceDispatch' = Min(PacingInterval, sinceDispatch + d)
        /\ UNCHANGED <<maxRate, killSwitch, saveQueue, error, finalizedPromise, toSave,
                       timer, savePromise, handles, slices, outcomes, enqueued, ticks,
                       startCalls>>

Next == Save \/ SaveAll \/ Finalize \/ Tick \/ SaveSucceeds \/ SaveFails \/ Elapse

Spec == Init /\ [][Next]_vars

\* A run in which the backend never fails and finalize is called once, with
\* the event loop's guarantees: a due timeout fires, a request completes, time
\* passes.
FinalizeOnce ==
    /\ Len(outcomes) = 0
    /\ Finalize

NextOk == Save \/ SaveAll \/ FinalizeOnce \/ Tick \/ SaveSucceeds \/ Elapse

FairSpec ==
    /\ Init
    /\ [][NextOk]_vars
    /\ WF_vars(Tick)
    /\ WF_vars(SaveSucceeds)
    /\ WF_vars(Elapse)

\* self._startTimer() called by the user of the instance, not by finalize: at
\* most once in a run, and counted among the MaxCalls calls.
StartTimer ==
    /\ startCalls = Cardinality({p \in 1..Len(outcomes) : outcomes[p].kind = "deferred"})
    /\ Len(enqueued) + Len(outcomes) + 1 < MaxCalls
    /\ Becomes(startTimer(State))

NextDirect == Next \/ StartTimer
SpecDirect == Init /\ [][NextDirect]_vars

\* Any run of the public operations, with the event loop's guarantees: a due
\* timeout fires, every request completes (with success or failure), time
\* passes.
SaveCompletes == SaveSucceeds \/ SaveFails

FairSpecAny ==
    /\ Init
    /\ [][Next]_vars
    /\ WF_vars(Tick)
    /\ WF_vars(SaveCompletes)
    /\ WF_vars(Elapse)

\* ------------------------------------------------------------------- claims
AllItems == Flatten(enqueued)
SubBatches == Flatten([i \in 1..Len(slices) |-> slices[i].batches])
Submitted == Flatten(SubBatches)
NoFailure ==
    \A i \in 1..Len(slices) : \A j \in 1..Len(slices[i].subs) :
        slices[i].subs[j] # "failed"
Deferreds == {p \in 1..Len(outcomes) : outcomes[p].kind = "deferred"}
Failed(i) == HadError(slices[i].subs)
\* Slice i holds elements that were enqueued before finalize call p.
Owns(p, i) == Head(slices[i].items) <= outcomes[p].upto

\* C1: every Parse.Object.saveAll call holds 1..batchSize objects; while no
\* request has failed, the sub-batches submitted so far, concatenated in
\* submission order, followed by the queue, are exactly the objects enqueued,
\* in enqueue order (none lost, none twice); and when the first finalize's
\* promise is resolved, every object enqueued before that call was submitted.
C1_ExactlyOnceInOrder ==
    /\ \A k \in 1..Len(SubBatches) : Len(SubBatches[k]) \in 1..batchSize
    /\ NoFailure =>
        /\ Submitted \o saveQueue = AllItems
        /\ (1 \in Deferreds /\ outcomes[1].state = "resolved")
              => Len(Submitted) >= outcomes[1].upto

C1_Witness ==
    /\ NoFailure
    /\ saveQueue = <<>>
    /\ 1 \in Deferreds /\ outcomes[1].state = "resolved"
    /\ Len(slices) = 2
    /\ Len(slices[1].batches) = 2

\* C2: with the backend always succeeding and finalize called once on a
\* non-empty queue, the promise finalize returned is eventually resolved.
C2_FinalizeResolves ==
    (Len(outcomes) = 1 /\ outcomes[1].kind = "deferred")
        ~> (Len(outcomes) = 1 /\ outcomes[1].state = "resolved")

C2_Witness ==
    /\ Len(outcomes) = 1
    /\ outcomes[1].kind = "deferred"
    /\ outcomes[1].state = "resolved"
    /\ Len(slices) = 3

\* C3: when a request of a slice holding objects enqueued before a finalize
\* call has failed, the promise that call returned is not resolved, and once
\* the slice's join has failed it is rejected with the errors of a failed slice.
C3_FailureRejects ==
    \A p \in Deferreds : \A i \in 1..Len(slices) :
        (Owns(p, i) /\ Failed(i)) =>
            /\ outcomes[p].state # "resolved"
            /\ Joined(slices[i].subs) =>
                /\ outcomes[p].state = "rejected"
                /\ \E k \in 1..Len(slices) :
                      Failed(k) /\ outcomes[p].value = ErrorsOf(k, slices[k].subs)

\* C4: once a failure has been handled no tick occurs, and handling it empties
\* the queue without submitting what was in it.
C4_NoTickAfterFailure ==
    [][/\ killSwitch => ticks' = ticks
       /\ (~killSwitch /\ killSwitch') =>
             (saveQueue' = <<>> /\ Len(slices') = Len(slices))]_vars

\* C5: once killSwitch is true no further slice is dispatched, and a tick that
\* fires leaves the queue, the timer and savePromise as they were.
C5_HaltedDispatchesNothing ==
    [][killSwitch =>
          /\ Len(slices') = Len(slices)
          /\ ticks' # ticks =>
                (saveQueue' = saveQueue /\ timer' = timer /\ savePromise' = savePromise)]_vars

\* C6: a tick dispatches at most maxRate objects, and no tick dispatches less
\* than one pacing interval after the previous dispatching tick.
C6_RateLimited ==
    [][Len(slices') > Len(slices) =>
          /\ Len(slices'[Len(slices')].items) <= maxRate
          /\ sinceDispatch >= PacingInterval]_vars

\* C7: n objects enqueued, then finalize called once, nothing enqueued after
\* it and no request failed: the k-th tick dispatches objects (k-1)r+1 ..
\* min(kr, n), every tick dispatches, and the queue is empty after exactly
\* ceil(n / r) ticks, with no tick left scheduled.
DrainScenario ==
    /\ Len(outcomes) = 1
    /\ outcomes[1].kind = "deferred"
    /\ outcomes[1].upto = Len(AllItems)
    /\ NoFailure

C7_CeilTicks ==
    DrainScenario =>
        LET n == Len(AllItems)
            r == maxRate
        IN  /\ ticks = Len(slices)
            /\ \A k \in 1..Len(slices) :
                  slices[k].items = SubSeq(AllItems, (k - 1) * r + 1, Min(k * r, n))
            /\ Len(slices) <= SlicesNeeded(n, r)
            /\ saveQueue = <<>> <=> Len(slices) = SlicesNeeded(n, r)
            /\ saveQueue = <<>> => scheduled = {}

C7_Witness ==
    /\ DrainScenario
    /\ maxRate = 2
    /\ Len(AllItems) = 5
    /\ saveQueue = <<>>
    /\ ticks = 3

\* C8: resolve or reject is invoked at most once on a promise finalize created.
C8_SettledOnce ==
    \A p \in Deferreds : outcomes[p].calls <= 1

\* C9: a promise finalize created is resolved only in a state where the queue
\* is empty and every object enqueued before its finalize call was dispatched,
\* and rejected only in a state where killSwitch is true.
C9_SettledOnlyWhenDone ==
    [][\A p \in Deferreds :
          outcomes[p].state = "pending" =>
              /\ outcomes'[p].state = "resolved" =>
                    (saveQueue' = <<>> /\ Len(Submitted') >= outcomes[p].upto)
              /\ outcomes'[p].state = "rejected" => killSwitch']_vars

\* C10: at most one timeout is pending, and a _startTimer call made while one
\* is pending schedules nothing.
C10_OneTickScheduled ==
    /\ [](Cardinality(scheduled) <= 1)
    /\ [][(startCalls' # startCalls /\ scheduled # {}) => scheduled' = scheduled]_vars

C10_Witness ==
    /\ startCalls = 2
    /\ handles = 1
    /\ Cardinality(scheduled) = 1

\* C11: a saveAll call whose argument is not an array, or is an array with an
\* element that is no Parse.Object (a falsy one such as null included), throws
\* and leaves the queue as it was: no element of the argument is enqueued.
HasInvalid(kinds) == \E i \in 1..Len(kinds) : kinds[i] # "obj"

C11_AllOrNothing ==
    [][\A isArray \in BOOLEAN :
         \A kinds \in ObjectArrays \cup InvalidArrays \cup FalsyArrays :
            (saveAll(isArray, kinds) /\ (~isArray \/ HasInvalid(kinds))) =>
                /\ saveAllThrows(isArray, Elements(kinds, ValidCount(Flatten(enqueued)) + 1))
                /\ saveQueue' = saveQueue]_vars

\* The errors with which the joins of the failed slices rejected: the error
\* that halted the instance is one of them.
HaltErrors ==
    {ErrorsOf(k, slices[k].subs) :
        k \in {i \in 1..Len(slices) : Joined(slices[i].subs) /\ HadError(slices[i].subs)}}

\* What the finalize call of this step returned.
Returned == outcomes'[Len(outcomes')]
FinalizeCalled == Len(outcomes') = Len(outcomes) + 1

\* C12: a finalize call made after a failure has halted the instance returns
\* a promise rejected with the error of that failure.
C12_FinalizeAfterHalt ==
    [][(killSwitch /\ FinalizeCalled) =>
          /\ Returned.state = "rejected"
          /\ Returned.value \in HaltErrors]_vars

\* C13: a save or saveAll call made after a failure has halted the instance
\* changes nothing: the queue stays empty.
C13_HaltedEnqueueNoOp ==
    [][(killSwitch /\ (Save \/ SaveAll)) =>
          /\ saveQueue' = <<>>
          /\ UNCHANGED <<killSwitch, saveQueue, error, finalizedPromise, toSave,
                         timer, savePromise, scheduled, slices, outcomes>>]_vars

\* C14: a finalize call made while the queue is empty and no request is
\* pending (none has failed either) does not throw and returns a resolved
\* promise; so does finalize on a fresh instance.
InFlight == \E i \in 1..Len(slices) : ~Joined(slices[i].subs)

C14_EmptyFinalizeResolves ==
    [][(FinalizeCalled /\ saveQueue = <<>> /\ ~InFlight /\ NoFailure) =>
          /\ Returned.kind # "threw"
          /\ Returned.state = "resolved"]_vars

\* C15: every deferred promise finalize created is eventually settled, when
\* every due timeout fires and every request completes.
C15_EverySettled ==
    \A p \in 1..MaxCalls :
        (p \in Deferreds /\ outcomes[p].state = "pending")
            ~> (p \in Deferreds /\ outcomes[p].state # "pending")

\* C16: errHandler called on a halted instance, with the same or another
\* error, does nothing: calling it twice leaves the state the first call left,
\* and a join that rejects while killSwitch is true leaves the queue, the
\* timer, the pending timeouts, _error and every deferred promise as they
\* were (no second reject call).
SomeErrors == {ErrorsOf(i, <<"failed">>) : i \in 1..2}

JoinRejects ==
    \E i \in 1..Len(slices) :
        /\ ~Joined(slices[i].subs)
        /\ Joined(slices'[i].subs)
        /\ HadError(slices'[i].subs)

C16_HaltIdempotent ==
    /\ [](\A e1, e2 \in SomeErrors :
             errHandler(errHandler(State, e1), e2) = errHandler(State, e1))
    /\ [][(killSwitch /\ JoinRejects) =>
             /\ UNCHANGED <<killSwitch, saveQueue, timer, scheduled, error,
                            finalizedPromise>>
             /\ \A p \in Deferreds : outcomes'[p] = outcomes[p]]_vars

C16_Witness ==
    /\ killSwitch
    /\ Cardinality(HaltErrors) = 2
    /\ finalizedPromise # 0
    /\ outcomes[finalizedPromise].calls = 1

\* C17: the step in which the first failure is handled leaves no timeout
\* pending, killSwitch true and the queue empty; with a finalizedPromise that
\* promise is rejected with the error and _error stays unset, without one the
\* error is stored in _error; and a finalize call that finds _error set returns
\* a promise rejected with exactly that error.
Halts == ~killSwitch /\ killSwitch'

IsHaltError(err) ==
    \E i \in 1..Len(slices) :
        /\ ~Joined(slices[i].subs)
        /\ Joined(slices'[i].subs)
        /\ err = ErrorsOf(i, slices'[i].subs)

C17_FirstFailureHalts ==
    [][/\ Halts =>
          /\ scheduled' = {}
          /\ saveQueue' = <<>>
          /\ IF finalizedPromise # 0
             THEN /\ outcomes'[finalizedPromise].state = "rejected"
                  /\ IsHaltError(outcomes'[finalizedPromise].value)
                  /\ error' = Undefined
             ELSE IsHaltError(error')
       /\ (FinalizeCalled /\ error # Undefined) =>
          /\ Returned.kind = "error"
          /\ Returned.state = "rejected"
          /\ Returned.value = error]_vars

\* C18: in the step in which a promise finalize returned becomes resolved (or
\* is returned resolved), every request of every slice dispatched so far has
\* succeeded.
BecomesResolved(p) ==
    /\ outcomes'[p].state = "resolved"
    /\ (p > Len(outcomes) \/ outcomes[p].state # "resolved")

C18_ResolvedMeansAllSaved ==
    [][\A p \in 1..Len(outcomes') :
          BecomesResolved(p) =>
              \A i \in 1..Len(slices') : \A j \in 1..Len(slices'[i].subs) :
                  slices'[i].subs[j] = "ok"]_vars

\* C19, first part: before the first finalize call no timeout is pending, the
\* timer is unset and nothing was dispatched; save and saveAll leave the
\* timer, the pending timeouts and the dispatches as they were; once the queue
\* is empty no timeout is pending, and only finalize schedules one then.
IsPrefix(a, b) == Len(a) <= Len(b) /\ SubSeq(b, 1, Len(a)) = a

\* The step is a save or saveAll call that appends: the steps that extend the
\* history of appended arrays.
Enqueues == enqueued' # enqueued

NoTickWithoutFinalize ==
    /\ [](Len(outcomes) = 0 => (scheduled = {} /\ timer = 0 /\ slices = <<>>))
    /\ [](saveQueue = <<>> => scheduled = {})
    /\ [][Enqueues => UNCHANGED <<timer, scheduled, handles, slices>>]_vars
    /\ [][(scheduled = {} /\ scheduled' # {}) => FinalizeCalled]_vars

\* C19 as stated: moreover, while no timeout is pending, every step that is not
\* a finalize call keeps in the queue what is in it.
C19_StayQueued ==
    /\ NoTickWithoutFinalize
    /\ [][(scheduled = {} /\ ~FinalizeCalled) => IsPrefix(saveQueue, saveQueue')]_vars

\* C19 amended: while no timeout is pending, a step that is not a finalize
\* call dispatches nothing, and keeps in the queue what is in it unless it is
\* the handling of a failure, which empties the queue.
C19_NoDispatchBeforeFinalize ==
    /\ NoTickWithoutFinalize
    /\ [][(scheduled = {} /\ ~FinalizeCalled) =>
             /\ Len(slices') = Len(slices)
             /\ \/ IsPrefix(saveQueue, saveQueue')
                \/ Halts /\ saveQueue' = <<>>]_vars

C19_Witness ==
    /\ ~killSwitch
    /\ Len(slices) >= 1
    /\ Len(enqueued) >= 2
    /\ saveQueue # <<>>
    /\ saveQueue = enqueued[Len(enqueued)]
    /\ scheduled = {}
    /\ timer = 0

\* C20: _error is never set, and finalize never returns Parse.Promise.error.
C20_ErrorNeverStored ==
    /\ error = Undefined
    /\ \A p \in 1..Len(outcomes) : outcomes[p].kind # "error"

C20_Witness ==
    /\ killSwitch
    /\ Len(outcomes) >= 2
    /\ outcomes[Len(outcomes)].upto > outcomes[1].upto
    /\ outcomes[Len(outcomes)].state = "pending"

====
